---- MODULE Spec2Model ----
(***************************************************************************)
(* Session state machine of the interviewer avatar application.            *)
(*                                                                         *)
(* Two pages drive the same AvatarManager, each with its own               *)
(* InterviewController:                                                    *)
(*   - the multiple-choice page (static/js/interview.js), page = "choice", *)
(*   - the speech-input page, page = "speech".                             *)
(* Spec and LiveSpec are the multiple-choice page, SpeechSpec and          *)
(* SpeechLiveSpec the speech-input page.  Definitions of the speech-input  *)
(* controller carry the suffix _speech where a name would clash.           *)
(*                                                                         *)
(* JavaScript is single threaded: every action below is one macrotask      *)
(* (an event, a timer, an SDK callback) together with all the microtasks   *)
(* (promise continuations) it triggers.  A handler is written as an        *)
(* operator from the program state w (a record of every field) to the      *)
(* state it leaves; an action commits the record to the variables.         *)
(*                                                                         *)
(* Timers are not ordered by a clock: any pending timer may fire.  Speech  *)
(* operations handed to the SDK may call back at any later time, or never. *)
(***************************************************************************)
EXTENDS Integers, Sequences, FiniteSets, TLC

(***************************************************************************)
(* Bounds of the model.                                                    *)
(***************************************************************************)
\* disconnect is applied on its own up to MaxDisconnects times
MaxDisconnects == 2
\* _scoreAnswers is applied to question lists of up to MaxTotal questions
MaxTotal == 40
\* how many of a question's option buttons the user is seen to click
NumOptions == 2
\* how many lost speak operations (and lost timers) are followed at a time;
\* a lost speak operation beyond this never calls back
MaxLate == 1
\* the session is modelled over the first NumQuestions questions
NumQuestions == 2

(***************************************************************************)
(* Program constants.                                                      *)
(***************************************************************************)
\* QUESTIONS[i].correct, in question order; QUESTIONS[i].id = i
CORRECT == <<"B", "C", "B", "C", "B">>
QUESTIONS == SubSeq(CORRECT, 1, NumQuestions)
OptionIds == <<"A", "B", "C", "D">>
N == Len(QUESTIONS)
QuestionIds == 1..N
Options == {OptionIds[i] : i \in 1..NumOptions}

VARIABLES
  page,           \* which page is loaded: "choice" or "speech"
  \* ---- InterviewController fields
  currentIdx,     \* this.currentIdx
  answers,        \* this.answers: question id -> option id, "" when absent
  answerLocked,   \* this.answerLocked
  \* ---- AvatarManager fields (of this.avatar)
  synthesizer,    \* this._synthesizer # null
  peerConn,       \* this._peerConn # null
  isConnected,    \* this.isConnected
  isSpeaking,     \* this.isSpeaking
  orphaned,       \* an AvatarManager that init has replaced still holds its
                  \* open peer connection and synthesizer
  \* ---- the page
  rendered,       \* id of the question whose option buttons exist, 0 if none
  enabled,        \* the option buttons are not disabled
  retryBtn,       \* the 'Retry Connection' button is shown
  overlay,        \* the 'Avatar disconnected' overlay is shown
  results,        \* <<the report passed to _showResults>> (on the speech
                  \* page <<"Interview Complete">>, its final view), <<>> before
  report,         \* <<the last value returned by _scoreAnswers>>, <<>> before
  input,          \* the argument of a function applied on its own, <<>> in a session
  \* ---- the speech-input page
  mic,            \* the microphone area is shown
  recognizer,     \* the recognizer of the last _listenForAnswer: none, open, closed
  transcript,     \* the transcript shown, "" when hidden
  lateRecog,      \* recognitions still pending after their 30 s timer fired
  listenTimerLeft,\* a listen timer is pending although its promise is resolved
  \* ---- pending asynchronous work
  pc,             \* where the chain begun by init() is:
                  \*   boot, fetch, connect, failed, welcome,
                  \*   running (choice: the chains below carry on),
                  \*   question, listen, ack, delay, closing, done (speech)
  nDelay,         \* _handleAnswer calls waiting in their 700 ms delay
  nAsk,           \* _askQuestion calls awaiting their speak/30 s race
  nWait,          \* _finishInterview calls awaiting the first speak/20 s race
  nResult,        \* _finishInterview calls awaiting the second speak/20 s race
  lateSpeaks,     \* speak operations still pending after their race was lost
  staleTimer,     \* some timer is still pending after its race was lost
  \* ---- history (not program state)
  askLog,         \* the idx of every _askQuestion entry, in order
  accepts,        \* answers accepted since the last question was rendered
  disconnects,    \* number of AvatarManager.disconnect calls
  calls,          \* which of init, connect and close() the last step called
  lastEvent       \* what the last step was, where a property asks:
                  \*   DOMContentLoaded, retryClick, fetchFailed, fetched,
                  \*   connectFailed, connected, iceStateChange,
                  \*   orphanIceStateChange,
                  \*   clickLocked  (a click while answerLocked was true),
                  \*   askRejected  (the speak of a question rejected),
                  \*   askTimeout   (the 30 s timer of a question fired first),
                  \*   speakTimeout, listenTimeout (speech page timers),
                  \*   resultTimeout (the second 20 s timer fired first),
                  \*   other

vars == <<page, currentIdx, answers, answerLocked, synthesizer, peerConn,
          isConnected, isSpeaking, rendered, enabled, retryBtn, overlay, results,
          report, mic, recognizer, transcript, lateRecog, listenTimerLeft, pc,
          nDelay, nAsk, nWait, nResult, lateSpeaks, staleTimer, askLog, accepts,
          disconnects, calls, lastEvent, input, orphaned>>

\* the program state as one record; ev names the event being handled
World(ev) ==
  [page |-> page, mic |-> mic, recognizer |-> recognizer,
   transcript |-> transcript, lateRecog |-> lateRecog,
   listenTimerLeft |-> listenTimerLeft, calls |-> {},
   currentIdx |-> currentIdx, answers |-> answers, answerLocked |-> answerLocked,
   synthesizer |-> synthesizer, peerConn |-> peerConn, isConnected |-> isConnected,
   isSpeaking |-> isSpeaking, rendered |-> rendered, enabled |-> enabled,
   retryBtn |-> retryBtn, overlay |-> overlay, results |-> results,
   report |-> report, pc |-> pc, nDelay |-> nDelay, nAsk |-> nAsk,
   nWait |-> nWait, nResult |-> nResult, lateSpeaks |-> lateSpeaks,
   staleTimer |-> staleTimer, askLog |-> askLog, accepts |-> accepts,
   disconnects |-> disconnects, orphaned |-> orphaned, lastEvent |-> ev]

\* one step: the handlers of one macrotask left the program in state w
Commit(w) ==
  \E v \in {w} :
    /\ page' = v.page
    /\ mic' = v.mic
    /\ recognizer' = v.recognizer
    /\ transcript' = v.transcript
    /\ lateRecog' = v.lateRecog
    /\ listenTimerLeft' = v.listenTimerLeft
    /\ calls' = v.calls
    /\ currentIdx' = v.currentIdx
    /\ answers' = v.answers
    /\ answerLocked' = v.answerLocked
    /\ synthesizer' = v.synthesizer
    /\ peerConn' = v.peerConn
    /\ isConnected' = v.isConnected
    /\ isSpeaking' = v.isSpeaking
    /\ rendered' = v.rendered
    /\ enabled' = v.enabled
    /\ retryBtn' = v.retryBtn
    /\ overlay' = v.overlay
    /\ results' = v.results
    /\ report' = v.report
    /\ pc' = v.pc
    /\ nDelay' = v.nDelay
    /\ nAsk' = v.nAsk
    /\ nWait' = v.nWait
    /\ nResult' = v.nResult
    /\ lateSpeaks' = v.lateSpeaks
    /\ staleTimer' = v.staleTimer
    /\ askLog' = v.askLog
    /\ accepts' = v.accepts
    /\ disconnects' = v.disconnects
    /\ orphaned' = v.orphaned
    /\ lastEvent' = v.lastEvent
    /\ input' = input

\* a race was won by its timer: the speak operation stays pending, and is
\* followed up to MaxLate of them (one beyond that never calls back)
timerWon(w) ==
  [w EXCEPT !.lateSpeaks = IF @ < MaxLate THEN @ + 1 ELSE @]

\* a race was won by the speak operation: its timer stays pending
speakWon(w) == [w EXCEPT !.staleTimer = TRUE]

(***************************************************************************)
(* InterviewController: UI helpers and the callbacks given to the          *)
(* AvatarManager.                                                          *)
(***************************************************************************)
\* _setOptionsEnabled: sets disabled on every option button that exists
_setOptionsEnabled(w, on) ==
  IF w.rendered = 0 THEN w ELSE [w EXCEPT !.enabled = on]

\* _showMic of the speech-input controller
_showMic(w, visible) == [w EXCEPT !.mic = visible]

\* the onSpeakStart callback each controller gives to its AvatarManager
onSpeakStart(w) ==
  IF w.page = "speech" THEN _showMic(w, FALSE)
  ELSE _setOptionsEnabled([w EXCEPT !.answerLocked = TRUE], FALSE)

\* the onSpeakEnd callback; on the speech page it sets status texts only
onSpeakEnd(w) ==
  IF w.page = "speech" THEN w
  ELSE _setOptionsEnabled([w EXCEPT !.answerLocked = FALSE], TRUE)

\* an onDisconnected that would start over by itself
onDisconnectedReconnects(w) ==
  [w EXCEPT !.overlay = TRUE, !.pc = "fetch", !.calls = @ \cup {"init"}]

\* the onDisconnected callback: status label and reconnect overlay only
onDisconnected(w) == [w EXCEPT !.overlay = TRUE]

\* unlockOptions, the closure of _askQuestion
unlockOptions(w) == _setOptionsEnabled([w EXCEPT !.answerLocked = FALSE], TRUE)

\* a _renderQuestion that would leave the buttons of an earlier question
renderKeepsButtons(w, qid) ==
  IF w.rendered = 0 THEN [w EXCEPT !.rendered = qid, !.enabled = FALSE]
  ELSE [w EXCEPT !.enabled = FALSE]

\* _renderQuestion: replaces the option buttons, all created disabled
_renderQuestion(w, qid) == [w EXCEPT !.rendered = qid, !.enabled = FALSE]

(***************************************************************************)
(* AvatarManager.                                                          *)
(***************************************************************************)
\* speak: the guard that rejects at once when there is no live connection
speakRejectsAtOnce(w) == ~w.synthesizer \/ ~w.isConnected

\* speak: the part that runs before speakTextAsync is handed to the SDK
speakStart(w) == onSpeakStart([w EXCEPT !.isSpeaking = TRUE])

\* speak: either callback of speakTextAsync, before it settles the promise
speakCallback(w) == onSpeakEnd([w EXCEPT !.isSpeaking = FALSE])

\* close() of the SDK object throws: for the objects named with the input
\* of a disconnect applied on its own, for none in a session
closeThrows(what) ==
  "closeThrows" \in DOMAIN input /\ what \in input.closeThrows

\* the close() calls a disconnect makes: one for each object it holds
closeCalls(w) ==
  (IF w.synthesizer THEN {"synthesizer.close"} ELSE {})
    \cup (IF w.peerConn THEN {"peerConn.close"} ELSE {})

\* a disconnect without try/catch: a close() that throws ends it there
disconnectUnguarded(w) ==
  IF w.synthesizer /\ closeThrows("synthesizer")
  THEN [w EXCEPT !.calls = @ \cup {"synthesizer.close"},
                 !.disconnects = @ + 1]
  ELSE IF w.peerConn /\ closeThrows("peerConn")
  THEN [w EXCEPT !.synthesizer = FALSE, !.calls = @ \cup closeCalls(w),
                 !.disconnects = @ + 1]
  ELSE [w EXCEPT !.synthesizer = FALSE, !.peerConn = FALSE,
                 !.isConnected = FALSE, !.calls = @ \cup closeCalls(w),
                 !.disconnects = @ + 1]

\* disconnect: closes and forgets the synthesizer and the peer connection;
\* what a close() throws is caught and ignored
disconnect(w) ==
  [w EXCEPT !.synthesizer = FALSE, !.peerConn = FALSE, !.isConnected = FALSE,
            !.calls = @ \cup closeCalls(w), !.disconnects = @ + 1]

\* the oniceconnectionstatechange handler for disconnected, failed, closed
oniceconnectionstatechange(w) == onDisconnected([w EXCEPT !.isConnected = FALSE])

(***************************************************************************)
(* Scoring.                                                                *)
(***************************************************************************)
\* String.prototype.toUpperCase on the tokens an answer can hold
toUpperCase(s) ==
  CASE s = "a" -> "A" [] s = "b" -> "B" [] s = "c" -> "C" [] s = "d" -> "D"
    [] OTHER -> s

\* a selection that would be compared as recorded
selectedAsRecorded(ans, id) == ans[id]

\* (this.answers[String(q.id)] || '').toUpperCase(); an absent key is ""
selected(ans, id) == toUpperCase(ans[id])

\* the array built by QUESTIONS.map, for the questions whose correct options
\* are qs (question i has id i)
resultsOf(ans, qs) ==
  [i \in 1..Len(qs) |->
     [id |-> i, selected |-> selected(ans, i), correct |-> qs[i],
      is_correct |-> selected(ans, i) = qs[i]]]

\* score, incremented by the map callback once for every match
CountCorrect(res) == Cardinality({i \in 1..Len(res) : res[i].is_correct})

(***************************************************************************)
(* Number arithmetic of score / total * 100: IEEE 754 binary64, for        *)
(* positive values.  A value is [exp, a, b, c]: Precision binary digits,   *)
(* the first one a 1 weighing 2^exp, followed by the 18 digits a, the 18   *)
(* digits b and the 16 digits c.  Each operation rounds its exact result   *)
(* to Precision digits, to nearest, ties to even.                          *)
(***************************************************************************)
Precision == 53

\* the value one unit in the last place above [exp, a, b, c] when up
roundUp(exp, a, b, c, up) ==
  LET c1 == c + (IF up THEN 1 ELSE 0)
      b1 == b + (c1 \div 2^16)
      a1 == a + (b1 \div 2^18)
  IN IF a1 \div 2^18 = 1
     THEN [exp |-> exp + 1, a |-> 0, b |-> 0, c |-> 0]
     ELSE [exp |-> exp, a |-> a1 % 2^18, b |-> b1 % 2^18, c |-> c1 % 2^16]

\* how often s is doubled to reach t
leadingShift(s, t) ==
  CHOOSE k \in 0..12 : s * 2^k >= t /\ (k = 0 \/ s * 2^(k - 1) < t)

\* s / t for integers 0 < s <= t < 2^12: long division, Precision digits
\* and one more, the rest of the quotient being nonzero iff r3 is
divide(s, t) ==
  LET sh == leadingShift(s, t)
      r0 == s * 2^sh - t
      a == (r0 * 2^18) \div t
      r1 == (r0 * 2^18) % t
      b == (r1 * 2^18) \div t
      r2 == (r1 * 2^18) % t
      c == (r2 * 2^17) \div t
      r3 == (r2 * 2^17) % t
      up == c % 2 = 1 /\ (r3 # 0 \/ (c \div 2) % 2 = 1)
  IN roundUp(0 - sh, a, b, c \div 2, up)

\* f * 100: the exact product has d digits more than Precision
multiply100(f) ==
  LET v3 == f.c * 100
      v2 == f.b * 100 + (v3 \div 2^16)
      v1 == f.a * 100 + (v2 \div 2^18)
      top == 100 + (v1 \div 2^18)
      p1 == v1 % 2^18
      p2 == v2 % 2^18
      p3 == v3 % 2^16
      d == IF top >= 128 THEN 7 ELSE 6
      a == (top % 2^d) * 2^(18 - d) + (p1 \div 2^d)
      b == (p1 % 2^d) * 2^(18 - d) + (p2 \div 2^d)
      c == (p2 % 2^d) * 2^(16 - d) + (p3 \div 2^d)
      up == (p3 \div 2^(d - 1)) % 2 = 1 /\ (p3 % 2^(d - 1) # 0 \/ c % 2 = 1)
  IN roundUp(f.exp + d, a, b, c, up)

\* twice the value, fraction dropped (for values below 2^17)
doubledFloor(f) ==
  IF f.exp < -1 THEN 0 ELSE (2^18 + f.a) \div 2^(17 - f.exp)

\* a rounding that would drop the fraction
roundDown(f) == doubledFloor(f) \div 2

\* Math.round of a positive value: the integer part, plus one when the
\* fraction is at least one half
Math_round(f) == (doubledFloor(f) \div 2) + (doubledFloor(f) % 2)

\* Math.round(score / total * 100), every intermediate value computed once
Percentage(score, total) ==
  IF score = 0 THEN 0
  ELSE CHOOSE p \in {Math_round(product) :
                       product \in {multiply100(quotient) :
                         quotient \in {divide(s, t) :
                                         s \in {score}, t \in {total}}}} :
         TRUE

Grade(p) ==
  IF p >= 80 THEN "Excellent"
  ELSE IF p >= 60 THEN "Good"
  ELSE IF p >= 40 THEN "Average"
  ELSE "Needs Improvement"

\* the object _scoreAnswers returns once the map has built res
scored(res) ==
  LET score == CountCorrect(res)
      total == Len(res)
  IN CHOOSE data \in {[score |-> score, total |-> total, percentage |-> p,
                        grade |-> Grade(p), results |-> res] :
                         p \in {Percentage(score, total)}} : TRUE

\* _scoreAnswers over the questions whose correct options are qs
scoreAnswers(ans, qs) ==
  CHOOSE data \in {scored(res) : res \in {resultsOf(ans, qs)}} : TRUE

_scoreAnswers(w) == scoreAnswers(w.answers, QUESTIONS)

(***************************************************************************)
(* InterviewController (multiple choice): the interview flow.              *)
(***************************************************************************)
\* _showResults replaces the whole layout
_showResults(w, data) ==
  [w EXCEPT !.results = <<data>>, !.rendered = 0, !.enabled = FALSE]

\* _finishInterview from the end of the second race on
finishAfterResult(w) == disconnect(_showResults(w, w.report[1]))

\* a first race with no catch: its rejection would end _finishInterview
finishAfterWaitUncaught(w) == w

\* a _finishInterview that would show the results without the result speech
finishAfterWaitShowsAtOnce(w) ==
  finishAfterResult([w EXCEPT !.report = <<_scoreAnswers(w)>>])

\* _finishInterview from the end of the first race to the second race
finishAfterWait(w) ==
  CHOOSE w2 \in {IF speakRejectsAtOnce(w1) THEN finishAfterResult(w1)
                  ELSE [speakStart(w1) EXCEPT !.nResult = @ + 1] :
                    w1 \in {[w EXCEPT !.report = <<data>>] :
                              data \in {_scoreAnswers(w)}}} : TRUE

\* a _finishInterview that would leave the option buttons in place
finishKeepsOptions(w) ==
  LET w1 == [w EXCEPT !.askLog = Append(@, N)]
  IN IF speakRejectsAtOnce(w1) THEN finishAfterWait(w1)
     ELSE [speakStart(w1) EXCEPT !.nWait = @ + 1]

\* _finishInterview up to the first race
_finishInterview(w) ==
  LET w1 == [w EXCEPT !.rendered = 0, !.enabled = FALSE,
                      !.askLog = Append(@, N)]
  IN IF speakRejectsAtOnce(w1) THEN finishAfterWait(w1)
     ELSE [speakStart(w1) EXCEPT !.nWait = @ + 1]

\* a catch block that would only log
askCatchLogsOnly(w) == w

\* the catch block of _askQuestion
askCatch(w) == unlockOptions(w)

\* _askQuestion up to the race of speak against the 30 s timer
_askQuestion(w, idx) ==
  IF idx >= N THEN _finishInterview(w)
  ELSE LET w1 == [w EXCEPT !.currentIdx = idx, !.answerLocked = TRUE,
                           !.askLog = Append(@, idx), !.accepts = 0]
           w2 == _setOptionsEnabled(_renderQuestion(w1, idx + 1), FALSE)
       IN IF speakRejectsAtOnce(w2)
          THEN askCatch([w2 EXCEPT !.lastEvent = "askRejected"])
          ELSE [speakStart(w2) EXCEPT !.nAsk = @ + 1]

\* a _handleAnswer that would not look at answerLocked
handleAnswerUnguarded(w, questionId, optionId) ==
  [_setOptionsEnabled([w EXCEPT !.answerLocked = TRUE], FALSE)
     EXCEPT !.answers[questionId] = optionId,
            !.accepts = @ + 1,
            !.nDelay = @ + 1]

\* _handleAnswer up to the 700 ms delay
_handleAnswer(w, questionId, optionId) ==
  IF w.answerLocked THEN w
  ELSE LET w1 == _setOptionsEnabled([w EXCEPT !.answerLocked = TRUE], FALSE)
       IN [w1 EXCEPT !.answers[questionId] = optionId,
                     !.accepts = @ + 1,
                     !.nDelay = @ + 1]

\* _handleAnswer after the delay
handleAnswerAfterDelay(w) == _askQuestion(w, w.currentIdx + 1)

\* _startInterview up to the race of the welcome speech against the 25 s timer
_startInterview(w) ==
  IF speakRejectsAtOnce(w) THEN _askQuestion(w, 0)
  ELSE [speakStart(w) EXCEPT !.pc = "welcome"]

\* _startInterview after the race, however it ended
startAfterWelcome(w) == _askQuestion([w EXCEPT !.pc = "running"], 0)

\* a catch block that would go on to connect after the failure
initCatchContinues(w) ==
  [w EXCEPT !.pc = "connect", !.calls = @ \cup {"connect"}]

\* the catch block of init: message and retry button
initCatch(w) == [w EXCEPT !.pc = "failed", !.retryBtn = TRUE]

\* init up to the token fetches
init(w) == [w EXCEPT !.pc = "fetch", !.calls = @ \cup {"init"}]

\* init from the tokens to the await of connect: a new AvatarManager, whose
\* connect throws before it opens anything when the ICE token does not parse;
\* the AvatarManager it replaces is dropped as it is, open or not
initConnect(w, parses) ==
  LET w1 == [w EXCEPT !.orphaned = @ \/ w.peerConn \/ w.synthesizer,
                      !.synthesizer = FALSE, !.peerConn = FALSE,
                      !.isConnected = FALSE, !.isSpeaking = FALSE,
                      !.calls = @ \cup {"connect"}]
  IN IF parses
     THEN [w1 EXCEPT !.peerConn = TRUE, !.synthesizer = TRUE, !.pc = "connect"]
     ELSE initCatch(w1)

\* connect after startAvatarAsync, then init goes on to _startInterview
initConnected(w) ==
  _startInterview([w EXCEPT !.isConnected = TRUE, !.pc = "running"])

(***************************************************************************)
(* InterviewController (speech input): the interview flow.  throwsAt says  *)
(* where the next _listenForAnswer throws inside its try block: none,      *)
(* config (before the recognizer exists) or recognize (recognizeOnceAsync, *)
(* after the 30 s timer was set).                                          *)
(***************************************************************************)
\* a _finishInterview that would show the final view without disconnecting
finishAfterClosingNoDisconnect(w) ==
  [w EXCEPT !.results = <<"Interview Complete">>, !.pc = "done"]

\* _finishInterview after its _speak: disconnect, then the final view
finishAfterClosing(w) ==
  [disconnect(w) EXCEPT !.results = <<"Interview Complete">>, !.pc = "done"]

\* _finishInterview up to the race inside _speak
_finishInterview_speech(w) ==
  LET w1 == [_showMic(w, FALSE) EXCEPT !.transcript = "",
                                       !.askLog = Append(@, N)]
  IN IF speakRejectsAtOnce(w1) THEN finishAfterClosing(w1)
     ELSE [speakStart(w1) EXCEPT !.pc = "closing"]

\* an _askQuestion that would ask the same question again
askAfterAckRepeats(w) == [w EXCEPT !.pc = "question"]

\* _askQuestion after the acknowledgement: the 600 ms delay
askAfterAck(w) == [w EXCEPT !.pc = "delay"]

\* _askQuestion from the answer to the race of the acknowledgement
askAfterListen(w, userSpeech) ==
  LET w1 == IF userSpeech # "" THEN [w EXCEPT !.transcript = userSpeech] ELSE w
  IN IF speakRejectsAtOnce(w1) THEN askAfterAck(w1)
     ELSE [speakStart(w1) EXCEPT !.pc = "ack"]

\* _listenForAnswer up to recognizeOnceAsync, and _askQuestion after it when
\* the promise is resolved at once by the catch block
_listenForAnswer(w, throwsAt) ==
  IF throwsAt = "config" THEN askAfterListen(_showMic(w, FALSE), "")
  ELSE LET w1 == [_showMic(w, TRUE) EXCEPT !.recognizer = "open"]
       IN IF throwsAt = "recognize"
          THEN askAfterListen([_showMic(w1, FALSE)
                                 EXCEPT !.listenTimerLeft = TRUE], "")
          ELSE [w1 EXCEPT !.pc = "listen"]

\* _askQuestion up to the race of the question's _speak
_askQuestion_speech(w, idx, throwsAt) ==
  IF idx >= N THEN _finishInterview_speech(w)
  ELSE LET w1 == [w EXCEPT !.currentIdx = idx, !.transcript = "",
                           !.askLog = Append(@, idx)]
       IN IF speakRejectsAtOnce(w1) THEN _listenForAnswer(w1, throwsAt)
          ELSE [speakStart(w1) EXCEPT !.pc = "question"]

\* what follows a _speak, by the place that awaited it
afterSpeak(w, throwsAt) ==
  CASE w.pc = "welcome" -> _askQuestion_speech(w, 0, throwsAt)
    [] w.pc = "question" -> _listenForAnswer(w, throwsAt)
    [] w.pc = "ack" -> askAfterAck(w)
    [] w.pc = "closing" -> finishAfterClosing(w)

\* _startInterview up to the race of the welcome _speak
_startInterview_speech(w, throwsAt) ==
  IF speakRejectsAtOnce(w) THEN _askQuestion_speech(w, 0, throwsAt)
  ELSE [speakStart(w) EXCEPT !.pc = "welcome"]

\* a timer that would resolve without closing the recognizer
listenEndsLeavesOpen(w) == _showMic(w, FALSE)

\* a recognizer callback or the 30 s timer of _listenForAnswer: the
\* recognizer is closed and the microphone hidden
listenEnds(w) == [_showMic(w, FALSE) EXCEPT !.recognizer = "closed"]

\* the onclick handler of the retry button
retryOnclick(w) == init([w EXCEPT !.retryBtn = FALSE])

(***************************************************************************)
(* Actions of both pages: init and the AvatarManager's events.             *)
(***************************************************************************)
\* DOMContentLoaded: new InterviewController().init()
Bootstrap ==
  /\ pc = "boot"
  /\ Commit(init(World("DOMContentLoaded")))

\* the user clicks 'Retry Connection'
RetryClick ==
  /\ retryBtn
  /\ Commit(retryOnclick(World("retryClick")))

\* Promise.all of the two token fetches rejects
FetchFails ==
  /\ pc = "fetch"
  /\ Commit(initCatch(World("fetchFailed")))

\* both tokens arrive
FetchSucceeds ==
  /\ pc = "fetch"
  /\ \E parses \in BOOLEAN : Commit(initConnect(World("fetched"), parses))

\* startAvatarAsync rejects
ConnectFails ==
  /\ pc = "connect"
  /\ Commit(initCatch(World("connectFailed")))

\* the peer connection reports disconnected, failed or closed
IceStateChange ==
  /\ peerConn
  /\ Commit(oniceconnectionstatechange(World("iceStateChange")))

\* the peer connection of an AvatarManager that init has replaced reports
\* disconnected, failed or closed: its handler calls the onDisconnected it
\* was given by the same controller
OrphanIceStateChange ==
  /\ orphaned
  /\ Commit(onDisconnected(World("orphanIceStateChange")))

\* a speech whose race was already lost calls back
LateSpeakCallback ==
  /\ lateSpeaks > 0
  /\ Commit([speakCallback(World("other")) EXCEPT !.lateSpeaks = @ - 1])

\* a timer whose race was already won by the speech fires: nobody listens
StaleTimerFires ==
  /\ staleTimer
  /\ Commit([World("other") EXCEPT !.staleTimer = FALSE])

(***************************************************************************)
(* Actions of the multiple-choice page.                                    *)
(***************************************************************************)
\* startAvatarAsync resolves: connected, and the interview starts
ConnectSucceeds ==
  /\ pc = "connect"
  /\ Commit(initConnected(World("connected")))

\* the welcome speech calls back (completed, failed or error) before 25 s
WelcomeSpoken ==
  /\ pc = "welcome"
  /\ Commit(startAfterWelcome(speakWon(speakCallback(World("other")))))

\* the 25 s timer fires first
WelcomeTimeout ==
  /\ pc = "welcome"
  /\ Commit(startAfterWelcome(timerWon(World("other"))))

\* a question's speech completes before its 30 s timer
AskResolved ==
  /\ nAsk > 0
  /\ Commit([speakWon(speakCallback(World("other"))) EXCEPT !.nAsk = @ - 1])

\* a question's speech fails or errors before its 30 s timer
AskRejected ==
  /\ nAsk > 0
  /\ Commit(askCatch([speakWon(speakCallback(World("askRejected")))
                        EXCEPT !.nAsk = @ - 1]))

\* a question's 30 s timer fires first
AskTimeout ==
  /\ nAsk > 0
  /\ Commit(askCatch([timerWon(World("askTimeout")) EXCEPT !.nAsk = @ - 1]))

\* the user clicks an option button of the rendered question
Click ==
  /\ rendered # 0
  /\ \E opt \in Options :
       Commit(_handleAnswer(World(IF answerLocked THEN "clickLocked" ELSE "other"),
                            rendered, opt))

\* a 700 ms delay of _handleAnswer ends
DelayFires ==
  /\ nDelay > 0
  /\ Commit(handleAnswerAfterDelay([World("other") EXCEPT !.nDelay = @ - 1]))

\* the first closing speech calls back before its 20 s timer
WaitSpoken ==
  /\ nWait > 0
  /\ Commit(finishAfterWait([speakWon(speakCallback(World("other")))
                               EXCEPT !.nWait = @ - 1]))

\* the first 20 s timer fires first
WaitTimeout ==
  /\ nWait > 0
  /\ Commit(finishAfterWait([timerWon(World("other")) EXCEPT !.nWait = @ - 1]))

\* the result speech calls back before its 20 s timer
ResultSpoken ==
  /\ nResult > 0
  /\ Commit(finishAfterResult([speakWon(speakCallback(World("other")))
                                 EXCEPT !.nResult = @ - 1]))

\* the second 20 s timer fires first
ResultTimeout ==
  /\ nResult > 0
  /\ Commit(finishAfterResult([timerWon(World("resultTimeout"))
                                 EXCEPT !.nResult = @ - 1]))

(***************************************************************************)
(* Actions of the speech-input page.                                       *)
(***************************************************************************)
ListenThrows == {"none", "config", "recognize"}
Transcripts == {"", "an answer"}
SpeakPlaces == {"welcome", "question", "ack", "closing"}

\* startAvatarAsync resolves: connected, and the interview starts
ConnectSucceeds_speech ==
  /\ pc = "connect"
  /\ \E t \in ListenThrows :
       Commit(_startInterview_speech([World("connected")
                                        EXCEPT !.isConnected = TRUE], t))

\* the speech awaited by _speak calls back (completed, failed or error)
\* before the 30 s timer
SpeakSettles ==
  /\ pc \in SpeakPlaces
  /\ \E t \in ListenThrows :
       Commit(afterSpeak(speakWon(speakCallback(World("other"))), t))

\* the 30 s timer of _speak fires first
SpeakTimeout ==
  /\ pc \in SpeakPlaces
  /\ \E t \in ListenThrows :
       Commit(afterSpeak(timerWon(World("speakTimeout")), t))

\* the recognizer calls back before the 30 s timer: with a text, or with no
\* recognized speech or an error (the empty answer)
RecognizerCallback ==
  /\ pc = "listen"
  /\ \E text \in Transcripts :
       Commit(askAfterListen(listenEnds(World("other")), text))

\* the 30 s timer of _listenForAnswer fires first
ListenTimeout ==
  /\ pc = "listen"
  /\ Commit(askAfterListen(
              [listenEnds(World("listenTimeout"))
                 EXCEPT !.lateRecog = IF @ < MaxLate THEN @ + 1 ELSE @], ""))

\* a recognizer closed by its timer calls back after all
LateRecognizerCallback ==
  /\ lateRecog > 0
  /\ Commit([_showMic(World("other"), FALSE) EXCEPT !.lateRecog = @ - 1])

\* the timer left behind by a _listenForAnswer that threw fires
ListenTimerLeftFires ==
  /\ listenTimerLeft
  /\ Commit([_showMic(World("other"), FALSE) EXCEPT !.listenTimerLeft = FALSE])

\* the 600 ms delay of _askQuestion ends
DelayFires_speech ==
  /\ pc = "delay"
  /\ \E t \in ListenThrows :
       Commit(_askQuestion_speech(World("other"), currentIdx + 1, t))

InitOf(p) ==
  /\ page = p
  /\ mic = FALSE
  /\ recognizer = "none"
  /\ transcript = ""
  /\ lateRecog = 0
  /\ listenTimerLeft = FALSE
  /\ calls = {}
  /\ currentIdx = 0
  /\ answers = [q \in QuestionIds |-> ""]
  /\ answerLocked = TRUE
  /\ synthesizer = FALSE
  /\ peerConn = FALSE
  /\ isConnected = FALSE
  /\ isSpeaking = FALSE
  /\ rendered = 0
  /\ enabled = FALSE
  /\ retryBtn = FALSE
  /\ overlay = FALSE
  /\ results = <<>>
  /\ report = <<>>
  /\ pc = "boot"
  /\ nDelay = 0
  /\ nAsk = 0
  /\ nWait = 0
  /\ nResult = 0
  /\ lateSpeaks = 0
  /\ staleTimer = FALSE
  /\ askLog = <<>>
  /\ accepts = 0
  /\ disconnects = 0
  /\ orphaned = FALSE
  /\ lastEvent = "other"

Init == InitOf("choice") /\ input = <<>>

Next ==
  \/ Bootstrap
  \/ RetryClick
  \/ FetchFails
  \/ FetchSucceeds
  \/ ConnectFails
  \/ ConnectSucceeds
  \/ IceStateChange
  \/ OrphanIceStateChange
  \/ WelcomeSpoken
  \/ WelcomeTimeout
  \/ AskResolved
  \/ AskRejected
  \/ AskTimeout
  \/ Click
  \/ DelayFires
  \/ WaitSpoken
  \/ WaitTimeout
  \/ ResultSpoken
  \/ ResultTimeout
  \/ LateSpeakCallback
  \/ StaleTimerFires

Spec == Init /\ [][Next]_vars

(***************************************************************************)
(* The same program under the scheduling the browser and the user give:    *)
(* every pending timer fires, and the user clicks an option while the      *)
(* options stay unlocked.  No speak operation is ever bound to call back.  *)
(***************************************************************************)
AcceptedClick == ~answerLocked /\ Click

Fairness ==
  /\ WF_vars(WelcomeTimeout)
  /\ WF_vars(AskTimeout)
  /\ WF_vars(WaitTimeout)
  /\ WF_vars(ResultTimeout)
  /\ WF_vars(DelayFires)
  /\ WF_vars(AcceptedClick)

LiveSpec == Init /\ [][Next]_vars /\ Fairness

(***************************************************************************)
(* The speech-input page.                                                  *)
(***************************************************************************)
SpeechInit == InitOf("speech") /\ input = <<>>

SpeechNext ==
  \/ Bootstrap
  \/ RetryClick
  \/ FetchFails
  \/ FetchSucceeds
  \/ ConnectFails
  \/ ConnectSucceeds_speech
  \/ IceStateChange
  \/ OrphanIceStateChange
  \/ SpeakSettles
  \/ SpeakTimeout
  \/ RecognizerCallback
  \/ ListenTimeout
  \/ LateRecognizerCallback
  \/ ListenTimerLeftFires
  \/ DelayFires_speech
  \/ LateSpeakCallback
  \/ StaleTimerFires

SpeechSpec == SpeechInit /\ [][SpeechNext]_vars

\* every pending timer fires; nothing else is bound to happen
SpeechFairness ==
  /\ WF_vars(SpeakTimeout)
  /\ WF_vars(ListenTimeout)
  /\ WF_vars(DelayFires_speech)

SpeechLiveSpec == SpeechInit /\ [][SpeechNext]_vars /\ SpeechFairness

(***************************************************************************)
(* Either page: the browser loads one of the two, and only the actions of  *)
(* the page loaded can happen.                                             *)
(***************************************************************************)
PagesInit == (InitOf("choice") \/ InitOf("speech")) /\ input = <<>>

PagesNext ==
  \/ page = "choice" /\ Next
  \/ page = "speech" /\ SpeechNext

PagesSpec == PagesInit /\ [][PagesNext]_vars

(***************************************************************************)
(* _scoreAnswers on its own: applied once to an answers record and a       *)
(* question list drawn from ScoreInputs.                                   *)
(***************************************************************************)
\* what an entry of answers can hold: an option id, in either case, or
\* nothing
Tokens == {OptionIds[i] : i \in 1..Len(OptionIds)} \cup {"", "b", "c"}

\* total questions of which the first score are answered correctly
ratioInput(score, total) ==
  [questions |-> [i \in 1..total |-> "A"],
   answers |-> [i \in 1..total |-> IF i <= score THEN "A" ELSE ""]]

\* every answers record for QUESTIONS as they are in the source, every
\* score out of every total up to MaxTotal, and 159 out of 200 (79.5 %)
ScoreInputs ==
  {[questions |-> CORRECT, answers |-> a] : a \in [1..Len(CORRECT) -> Tokens]}
    \cup UNION {{ratioInput(sc, t) : sc \in 0..t} : t \in 1..MaxTotal}
    \cup {ratioInput(159, 200)}

ScoreInit ==
  /\ InitOf("score")
  /\ input \in ScoreInputs

\* the call of _scoreAnswers
ScoreAnswers ==
  /\ pc = "boot"
  /\ Commit([World("other")
               EXCEPT !.report = <<scoreAnswers(input.answers, input.questions)>>,
                      !.pc = "done"])

ScoreNext == ScoreAnswers

ScoreSpec == ScoreInit /\ [][ScoreNext]_vars

(***************************************************************************)
(* An AvatarManager on its own: built and connected by init, and           *)
(* disconnected by its owner at any time, more than once.                  *)
(***************************************************************************)
\* which close() calls throw
CloseThrowInputs ==
  {[closeThrows |-> S] : S \in SUBSET {"synthesizer", "peerConn"}}

ManagerInit == InitOf("manager") /\ input \in CloseThrowInputs

\* startAvatarAsync resolves: connect returns, nothing else is started
ManagerConnected ==
  /\ pc = "connect"
  /\ Commit([World("connected") EXCEPT !.isConnected = TRUE, !.pc = "idle"])

\* the owner calls disconnect()
Disconnect ==
  /\ pc \in {"connect", "idle"}
  /\ disconnects < MaxDisconnects
  /\ Commit(disconnect(World("disconnect")))

ManagerNext ==
  \/ Bootstrap
  \/ RetryClick
  \/ FetchFails
  \/ FetchSucceeds
  \/ ConnectFails
  \/ ManagerConnected
  \/ IceStateChange
  \/ OrphanIceStateChange
  \/ Disconnect

ManagerSpec == ManagerInit /\ [][ManagerNext]_vars

(***************************************************************************)
(* Properties.                                                             *)
(***************************************************************************)
\* the session is under way: connect has succeeded
SessionStarted == pc \notin {"boot", "fetch", "connect", "failed"}

\* speak operations handed to the synthesizer that have not called back
\* (those followed by the model)
PendingSpeaks ==
  (IF pc \in SpeakPlaces THEN 1 ELSE 0) + nAsk + nWait + nResult + lateSpeaks

\* the option buttons are enabled exactly while answers are unlocked
ButtonsFollowLock == rendered # 0 => (enabled <=> ~answerLocked)

\* C1: _askQuestion is entered once for each index 0..N-1, in increasing
\* order, and _finishInterview (logged as N) once, after index N-1: the log
\* of entries is always a prefix of 0, 1, ..., N-1, N.
C1_AskedOncePerIndexThenFinishedOnce ==
  \A i \in 1..Len(askLog) : askLog[i] = i - 1

\* C2: between two renderings at most one _handleAnswer call passes the
\* answerLocked guard, and while a 700 ms delay is running answerLocked is true.
C2_OneAcceptedAnswerPerQuestion ==
  /\ accepts <= 1
  /\ nDelay > 0 => answerLocked

\* C3: a _handleAnswer call made while answerLocked is true changes nothing:
\* not answers, currentIdx or answerLocked, no delay is started and no
\* _askQuestion or _finishInterview call results.
C3_LockedCallIsNoOp ==
  [][lastEvent' = "clickLocked" =>
       UNCHANGED <<answers, currentIdx, answerLocked, accepts, nDelay, nAsk, nWait,
                   nResult, askLog, rendered, enabled>>]_vars

\* a click arrived while answers were locked, and they still are
C3_Witness == lastEvent = "clickLocked" /\ answerLocked /\ rendered # 0

\* C4: while an _askQuestion call awaits its race (its speak has not
\* settled and its 30 s timer has not fired), answerLocked is true.
C4_LockedUntilQuestionSpoken == nAsk > 0 => answerLocked

\* C5: while a speak operation that called onSpeakStart has not been called
\* back by the synthesizer, answerLocked is true.
C5_LockedWhileSpeaking == PendingSpeaks > 0 => answerLocked

\* C6: in the step in which the speak of _askQuestion(idx), idx < N, rejects,
\* or its 30 s timer fires first, answers are unlocked (and the buttons, if
\* any, enabled) and init's catch block is not entered.
C6_AskFailureUnlocks ==
  [][lastEvent' \in {"askRejected", "askTimeout"} =>
       /\ ~answerLocked'
       /\ rendered' # 0 => enabled'
       /\ pc' # "failed"
       /\ ~retryBtn']_vars

\* the 30 s timer fired with the speak still pending, and options are open
C6_Witness ==
  lastEvent = "askTimeout" /\ lateSpeaks > 0 /\ ~answerLocked /\ enabled

\* C7: once connected, the multiple-choice session reaches the results view
\* and calls avatar.disconnect().
C7_ReachesResults ==
  (page = "choice" /\ SessionStarted) ~> (Len(results) > 0 /\ disconnects > 0)

\* results are shown although the avatar disconnected mid-session and a
\* speak operation never called back
C7_Witness ==
  Len(results) > 0 /\ disconnects > 0 /\ overlay /\ lateSpeaks > 0

\* C8: once connected, the speech-input session reaches the final view with
\* avatar.disconnect() called.
C8_SpeechReachesFinalView ==
  (page = "speech" /\ SessionStarted) ~> (Len(results) > 0 /\ disconnects > 0)

\* the final view is reached with a speak operation and a recognition that
\* never called back
C8_Witness ==
  Len(results) > 0 /\ disconnects > 0 /\ lateSpeaks > 0 /\ lateRecog > 0

\* the avatar's disconnected event has fired in the session under way
DisconnectedInSession == overlay /\ ~isConnected /\ SessionStarted

\* C9: after the disconnected event the controller accepts no
\* answer, does not advance currentIdx, starts no speak and never shows the
\* results.
C9_DisconnectedIsTerminal ==
  [][DisconnectedInSession =>
       /\ answers' = answers
       /\ currentIdx' = currentIdx
       /\ results' = results
       /\ PendingSpeaks' <= PendingSpeaks]_vars

\* C10: init is called only by the bootstrap and by a click on the retry
\* button, connect only by init after the token fetches; a failed init and a
\* disconnected event call neither.
C10_NoAutomaticRetry ==
  [][/\ "init" \in calls' => lastEvent' \in {"DOMContentLoaded", "retryClick"}
     /\ "connect" \in calls' => (pc = "fetch" /\ lastEvent' = "fetched")
     /\ lastEvent' \in {"fetchFailed", "connectFailed", "iceStateChange"}
          => calls' = {}]_vars

\* a connect failed and nothing was started: the retry button waits
C10_Witness ==
  lastEvent = "connectFailed" /\ retryBtn /\ pc = "failed" /\ calls = {}

\* C11: in the step in which the token fetches of init fail, connect is not
\* called, no speak is started, the interview has not begun (currentIdx,
\* answers and answerLocked as constructed, no _askQuestion entered), and
\* the catch block of init has shown the retry button.
C11_FetchFailureStops ==
  [][lastEvent' = "fetchFailed" =>
       /\ "connect" \notin calls'
       /\ PendingSpeaks' = 0 /\ ~isSpeaking'
       /\ ~SessionStarted' /\ askLog' = <<>>
       /\ currentIdx' = 0
       /\ answers' = [q \in QuestionIds |-> ""]
       /\ answerLocked'
       /\ pc' = "failed" /\ retryBtn']_vars

\* the token fetches failed and the retry button is shown
C11_Witness ==
  lastEvent = "fetchFailed" /\ pc = "failed" /\ retryBtn /\ ~isConnected

\* C12: at most one speak operation handed to the synthesizer is pending
\* (has neither resolved nor rejected) at any time.
C12_OneSpeakPending == PendingSpeaks <= 1

\* C13: on the speech page at most one speak operation is pending, and while
\* one is pending no listen operation is open and the microphone is not shown.
C13_SpeakAndListenExclusive ==
  /\ PendingSpeaks <= 1
  /\ PendingSpeaks > 0 => (recognizer # "open" /\ pc # "listen" /\ ~mic)

\* C14: an answer once recorded for a question id is never removed or changed.
C14_AnswersWriteOnce ==
  [][\A q \in QuestionIds : answers[q] # "" => answers'[q] = answers[q]]_vars

\* the recorded token is the option id c, in either case
SameLetter(token, c) ==
  token = c \/ <<token, c>> \in {<<"a", "A">>, <<"b", "B">>, <<"c", "C">>, <<"d", "D">>}

\* C15: for every answers record over QUESTIONS, score is the number of
\* questions whose recorded answer (case ignored, absent counting as empty)
\* is the correct option, total the number of questions, and the results are
\* in question order with is_correct exactly for the matches; all correct
\* gives 5, 100, Excellent and all A gives 0, 0, Needs Improvement.
C15_ScoreCountsMatches ==
  (pc = "done" /\ input.questions = CORRECT) =>
    LET r == report[1]
        a == input.answers
        matches == {i \in 1..Len(CORRECT) : SameLetter(a[i], CORRECT[i])}
    IN /\ r.score = Cardinality(matches)
       /\ r.total = Len(CORRECT)
       /\ Len(r.results) = Len(CORRECT)
       /\ \A i \in 1..Len(CORRECT) :
            /\ r.results[i].id = i
            /\ r.results[i].correct = CORRECT[i]
            /\ r.results[i].is_correct <=> i \in matches
       /\ a = CORRECT =>
            r.score = 5 /\ r.percentage = 100 /\ r.grade = "Excellent"
       /\ a = <<"A", "A", "A", "A", "A">> =>
            r.score = 0 /\ r.percentage = 0 /\ r.grade = "Needs Improvement"

\* a record with a lower-case and a missing answer was scored
C15_Witness ==
  /\ pc = "done" /\ input.questions = CORRECT
  /\ input.answers = <<"b", "C", "", "A", "B">>
  /\ report[1].score = 3 /\ report[1].percentage = 60 /\ report[1].grade = "Good"

\* score / total * 100 rounded half-up, in exact arithmetic
HalfUp(score, total) == (200 * score + total) \div (2 * total)

\* the grade is the one the thresholds give for the percentage
GradeFollowsThresholds(r) ==
  /\ r.grade = "Excellent" <=> r.percentage >= 80
  /\ r.grade = "Good" <=> (60 <= r.percentage /\ r.percentage < 80)
  /\ r.grade = "Average" <=> (40 <= r.percentage /\ r.percentage < 60)
  /\ r.grade = "Needs Improvement" <=> r.percentage < 40

C17_SpeechAnswerRecorded ==
  [][(pc = "listen" /\ pc' # "listen") =>
       answers'[currentIdx + 1] = transcript']_vars

\* C18: when the 30 s listen timer fires first, the recognizer is closed,
\* the microphone hidden, the answer is empty (no transcript is shown) and
\* the flow goes on to the acknowledgement; a listen operation never ends in
\* init's catch block; a recognizer callback after the timeout changes
\* neither the answer nor the flow.
C18_ListenTimeoutResolvesEmpty ==
  [][/\ lastEvent' = "listenTimeout" =>
          /\ recognizer' = "closed" /\ ~mic'
          /\ transcript' = ""
          /\ pc' \in {"ack", "delay"}
          /\ currentIdx' = currentIdx /\ askLog' = askLog
     /\ (pc = "listen" /\ pc' # "listen") =>
          (pc' \in {"ack", "delay"} /\ ~retryBtn')
     /\ lateRecog' < lateRecog =>
          /\ transcript' = transcript /\ pc' = pc
          /\ currentIdx' = currentIdx /\ askLog' = askLog
          /\ PendingSpeaks' = PendingSpeaks]_vars

\* the listen timer fired with the recognizer still pending, and the
\* acknowledgement is being spoken
C18_Witness ==
  /\ lastEvent = "listenTimeout" /\ lateRecog > 0 /\ recognizer = "closed"
  /\ pc = "ack" /\ transcript = ""

\* the place of a step within the handling of one question
StepRank(p) ==
  CASE p = "question" -> 1 [] p = "listen" -> 2 [] p = "ack" -> 3
    [] p = "delay" -> 4 [] OTHER -> 0

\* C19: on the speech page the log of _askQuestion entries is always a
\* prefix of 0, ..., N-1, N (N for _finishInterview); within one index the
\* steps follow the order question, listen, acknowledgement, delay; and a new
\* index (or _finishInterview) is entered only from the delay of the one
\* before it, or from the welcome for index 0.
C19_SpeechStepsInOrder ==
  [][/\ \A i \in 1..Len(askLog') : askLog'[i] = i - 1
     /\ (askLog' = askLog /\ StepRank(pc) > 0 /\ pc' # pc) =>
          (StepRank(pc') > StepRank(pc) /\ currentIdx' = currentIdx)
     /\ askLog' # askLog =>
          /\ pc \in {"connect", "welcome", "delay"}
          /\ Len(askLog') = Len(askLog) + 1
          /\ pc = "delay" => askLog'[Len(askLog')] = currentIdx + 1
     /\ pc' \in {"closing", "done"} =>
          (pc \in {"delay", "closing", "done"} \/ askLog' # askLog)]_vars

\* the final view was reached after every question and one _finishInterview
C19_Witness ==
  /\ page = "speech" /\ pc = "done" /\ Len(askLog) = N + 1
  /\ transcript = "" /\ recognizer = "closed"

\* C20: a disconnect call returns to its caller with the synthesizer and the
\* peer connection forgotten and isConnected false, having closed exactly
\* the objects it held, whatever close() throws; a second call in a row
\* closes nothing and changes no field of the AvatarManager.
C20_DisconnectIdempotent ==
  [][disconnects' > disconnects =>
       /\ ~synthesizer' /\ ~peerConn' /\ ~isConnected'
       /\ pc' = pc /\ ~retryBtn'
       /\ calls' = (IF synthesizer THEN {"synthesizer.close"} ELSE {})
                     \cup (IF peerConn THEN {"peerConn.close"} ELSE {})
       /\ lastEvent = "disconnect" =>
            /\ calls' = {}
            /\ <<synthesizer', peerConn', isConnected', isSpeaking'>>
                 = <<synthesizer, peerConn, isConnected, isSpeaking>>]_vars

\* disconnect was called twice in a row on a connected AvatarManager whose
\* close() calls throw
C20_Witness ==
  /\ lastEvent = "disconnect" /\ disconnects = 2 /\ pc = "idle"
  /\ calls = {} /\ ~synthesizer /\ ~peerConn /\ ~isConnected
  /\ closeThrows("synthesizer") /\ closeThrows("peerConn")

\* _finishInterview has been entered
FinishStarted == \E i \in 1..Len(askLog) : askLog[i] = N

\* C21 as stated: from the moment _finishInterview starts, answerLocked is
\* true and stays true.
C21_LockedFromFinish == FinishStarted => answerLocked

\* C21: from the moment _finishInterview starts no option button exists, so
\* no _handleAnswer call is accepted and answers is not modified any more,
\* in particular not after scoring; answerLocked itself is not set by
\* _finishInterview and follows the closing speak operations.
C21_NoAnswerAfterFinish ==
  /\ [](FinishStarted => rendered = 0 /\ ~enabled)
  /\ [](Len(report) > 0 => FinishStarted)
  /\ [][FinishStarted => answers' = answers /\ accepts' = accepts]_vars

\* the score is computed and answerLocked is false: the closing speech
\* has called onSpeakEnd
C21_Witness ==
  FinishStarted /\ Len(report) > 0 /\ ~answerLocked /\ rendered = 0

\* the number of _finishInterview calls so far
FinishCalls == Cardinality({i \in 1..Len(askLog) : askLog[i] = N})

\* C22: in _finishInterview the score is computed before the result speech
\* is issued; the results view is shown, with that score, only in the step
\* in which the result speech settles (or is rejected at once) or its 20 s
\* timer fires, and avatar.disconnect() is called in that same step; every
\* _finishInterview call is in its first race, in its second race or has
\* disconnected, and with the timers firing disconnect is reached.
C22_FinishOrdering ==
  /\ [](nResult > 0 => Len(report) > 0)
  /\ [](Len(report) > 0 => report[1] = scoreAnswers(answers, QUESTIONS))
  /\ [](FinishCalls = nWait + nResult + disconnects)
  /\ [][nWait' < nWait =>
          Len(report') > 0 /\ (nResult' > nResult \/ disconnects' > disconnects)]_vars
  /\ [][nResult' < nResult => disconnects' = disconnects + 1]_vars
  /\ [][(results' # results \/ disconnects' # disconnects) =>
          /\ results' = report' /\ Len(report') > 0
          /\ disconnects' = disconnects + 1
          /\ ~synthesizer' /\ ~peerConn' /\ ~isConnected'
          /\ (nResult' < nResult \/ ~synthesizer \/ ~isConnected)]_vars
  /\ (FinishStarted ~> disconnects > 0)

\* the second 20 s timer fired first: results shown, disconnect called
C22_Witness ==
  /\ lastEvent = "resultTimeout" /\ results = report /\ Len(results) > 0
  /\ disconnects = 1 /\ ~synthesizer /\ ~peerConn /\ nWait = 0 /\ nResult = 0

\* C23: only the first to settle of a race affects the controller: the
\* callback of a speak operation whose timer has won, and the firing of a
\* timer whose speak operation has won, change none of answerLocked,
\* currentIdx and answers.
C23_FirstToSettleDecides ==
  [][(lateSpeaks' < lateSpeaks \/ (staleTimer /\ ~staleTimer')) =>
       UNCHANGED <<answerLocked, currentIdx, answers>>]_vars

\* C24: the option buttons that exist are those of the question at
\* currentIdx, and whenever _handleAnswer accepts an answer it records it
\* under the id of that question (currentIdx + 1) and changes no other
\* entry; answers changes in no other step.
C24_RecordedUnderCurrentId ==
  /\ [](rendered # 0 => rendered = currentIdx + 1)
  /\ [][accepts' > accepts =>
          \E opt \in Options :
            answers' = [answers EXCEPT ![currentIdx + 1] = opt]]_vars
  /\ [][answers' # answers => accepts' > accepts]_vars

\* the answer to the second question has just been accepted
C24_Witness ==
  /\ accepts = 1 /\ nDelay > 0 /\ currentIdx = 1 /\ rendered = 2
  /\ answers[2] # "" /\ answerLocked

\* C25: in both controllers currentIdx stays within 0..N, and a step that
\* changes it increases it by exactly 1.
C25_CurrentIdxStepsByOne ==
  /\ [](currentIdx \in 0..N)
  /\ [][currentIdx' # currentIdx => currentIdx' = currentIdx + 1]_vars

\* currentIdx has advanced while another _handleAnswer call, accepted for
\* the question before, is still in its delay and will advance it again
C25_Witness ==
  page = "choice" /\ currentIdx = 1 /\ nDelay > 0 /\ accepts = 0 /\ nAsk > 0

\* C26: once _finishInterview is reached, and so whenever _scoreAnswers
\* has run, answers holds an option for every question id.
C26_AllAnsweredAtFinish ==
  FinishStarted => \A q \in QuestionIds : answers[q] # ""

\* C27: when init runs again after a failed attempt, the AvatarManager of
\* the failed attempt holds no open peer connection or synthesizer, and no
\* callback of a replaced AvatarManager changes the page of the new session.
C27_OneLiveMediaSession ==
  /\ [](lastEvent = "retryClick" => ~peerConn /\ ~synthesizer)
  /\ []~orphaned
  /\ [][lastEvent' = "orphanIceStateChange" => overlay' = overlay]_vars

====
